---- MODULE Spec2Model ----
(***************************************************************************)
(* A model of structmap.StructToMap (src/structmap.go): the conversion of  *)
(* a struct into a MappedStruct (map[string]interface{}) driven by struct  *)
(* tags, with the recursion of StructToMap made explicit as a call stack.  *)
(***************************************************************************)
EXTENDS Integers, Sequences, FiniteSets, TLC

VARIABLES data, tag, method, pc, stack, retv, ret, raised, run, prev

vars == <<data, tag, method, pc, stack, retv, ret, raised, run, prev>>

(***************************************************************************)
(* Constants of the package.                                               *)
(***************************************************************************)
OPTION_IGNORE == "-"
OPTION_OMITEMPTY == "omitempty"
OPTION_DIVE == "dive"
OPTION_WILDCARD == "wildcard"
OPTION_DOTTED == "dotted"

method_results_total == 2

FLAG_IGNORE == 1
FLAG_OMITEMPTY == 2
FLAG_DIVE == 4
FLAG_WILDCARD == 8
FLAG_DOTTED == 16

\* flag&f != 0, for f one of the FLAG_ bits.
HasFlag(flag, f) == (flag \div f) % 2 = 1

\* flag |= f, for f one of the FLAG_ bits.
SetFlag(flag, f) == IF HasFlag(flag, f) THEN flag ELSE flag + f

(***************************************************************************)
(* Go values as reflect sees them: a record with the value's kind (named   *)
(* as reflect.Kind.String() names it), its content, and the method set of  *)
(* its type (meth: the name of a method that takes no argument -> the      *)
(* outputs a call of it returns).                                          *)
(***************************************************************************)
NoMethods == [name \in {} |-> <<>>]

IntKinds == {"int", "int8", "int16", "int32", "int64"}
UintKinds == {"uint", "uint8", "uint16", "uint32", "uint64"}
FloatKinds == {"float32", "float64"}
ComplexKinds == {"complex64", "complex128"}
ContainerKinds == {"slice", "array", "map", "chan"}
NilableKinds == {"slice", "map", "chan", "func", "ptr", "interface", "unsafe.Pointer"}

Num(k, n) == [kind |-> k, n |-> n, meth |-> NoMethods]
Cplx(k, re, im) == [kind |-> k, re |-> re, im |-> im, meth |-> NoMethods]
Bool(b) == [kind |-> "bool", b |-> b, meth |-> NoMethods]
Str(s) == [kind |-> "string", s |-> s, meth |-> NoMethods]
\* slice, map, chan, func, unsafe.Pointer: nil or not, with some content.
Ref(k, isnil, content) == [kind |-> k, nil |-> isnil, elems |-> content, meth |-> NoMethods]
Array(content) == [kind |-> "array", elems |-> content, meth |-> NoMethods]
NilPtr == [kind |-> "ptr", nil |-> TRUE, meth |-> NoMethods]
Ptr(v) == [kind |-> "ptr", nil |-> FALSE, elem |-> v, meth |-> NoMethods]
NilIface == [kind |-> "interface", nil |-> TRUE, meth |-> NoMethods]
Iface(v) == [kind |-> "interface", nil |-> FALSE, elem |-> v, meth |-> NoMethods]
Struct(fs) == [kind |-> "struct", fields |-> fs, meth |-> NoMethods]
\* reflect.ValueOf(nil): the zero reflect.Value, of kind Invalid.
Invalid == [kind |-> "invalid", meth |-> NoMethods]
\* The same value, of a named type that has the methods ms.
WithMethods(v, ms) == [v EXCEPT !.meth = ms]

\* A struct field: reflect.StructField (exported: PkgPath = "", Tag: the
\* tag's key -> value pairs) together with the field's value.
Fld(exp, tg, v) == [exported |-> exp, Tag |-> tg, value |-> v]
NoTag == [ns \in {} |-> ""]
Json(s) == [json |-> s]

RECURSIVE IsZero(_)
\* reflect.Value.IsZero.
IsZero(v) ==
    CASE v.kind \in IntKinds \cup UintKinds \cup FloatKinds \cup {"uintptr"} -> v.n = 0
      [] v.kind \in ComplexKinds -> v.re = 0 /\ v.im = 0
      [] v.kind = "bool" -> ~v.b
      [] v.kind = "string" -> v.s = ""
      [] v.kind \in NilableKinds -> v.nil
      [] v.kind = "array" -> \A j \in 1..Len(v.elems) : IsZero(v.elems[j])
      [] v.kind = "struct" -> \A j \in 1..Len(v.fields) : IsZero(v.fields[j].value)
      [] OTHER -> TRUE

(***************************************************************************)
(* The values a MappedStruct holds (interface{}): t names the dynamic type.*)
(***************************************************************************)
NilValue == [t |-> "nil"]
Int64(n) == [t |-> "int64", n |-> n]
Uint64(n) == [t |-> "uint64", n |-> n]
Float64(n) == [t |-> "float64", n |-> n]
Complex128(re, im) == [t |-> "complex128", re |-> re, im |-> im]
BoolValue(b) == [t |-> "bool", b |-> b]
StringValue(s) == [t |-> "string", s |-> s]
\* A map entry that holds the nested map itself.
MapValue(m) == [t |-> "MappedStruct", m |-> m]
\* A map entry that holds a reflect.Value, the reflection handle of v.
ReflectValue(v) == [t |-> "reflect.Value", v |-> v]
\* An interface{} holding the Go value v itself, with v's own type.
Dyn(v) == [t |-> "dyn", v |-> v]

\* reflect.Value.Interface(): the value as an interface{}; an interface-kind
\* value gives what it holds (nil when it holds nothing).
Interface(v) ==
    IF v.kind = "interface" THEN (IF v.nil THEN NilValue ELSE Dyn(v.elem)) ELSE Dyn(v)

(***************************************************************************)
(* MappedStruct: a function from keys to values.                           *)
(***************************************************************************)
EmptyMap == [k \in {} |-> NilValue]

\* A key that is there keeps its value.
PutIfAbsent(m, k, v) == [x \in DOMAIN m \cup {k} |-> IF x \in DOMAIN m THEN m[x] ELSE v]

\* m[k] = v
Put(m, k, v) == [x \in DOMAIN m \cup {k} |-> IF x = k THEN v ELSE m[x]]

(***************************************************************************)
(* strings.Split(s, sep) for a one-character separator.                    *)
(***************************************************************************)
RECURSIVE SplitFrom(_, _, _, _)
SplitFrom(s, sep, i, cur) ==
    IF i > Len(s) THEN <<cur>>
    ELSE IF SubSeq(s, i, i) = sep THEN <<cur>> \o SplitFrom(s, sep, i + 1, "")
    ELSE SplitFrom(s, sep, i + 1, cur \o SubSeq(s, i, i))

Split(s, sep) == SplitFrom(s, sep, 1, "")

\* One turn of the switch of tagsReader's loop.
OptionFlag(flag, opt) ==
    CASE opt = OPTION_IGNORE -> SetFlag(flag, FLAG_IGNORE)
      [] opt = OPTION_OMITEMPTY -> SetFlag(flag, FLAG_OMITEMPTY)
      [] opt = OPTION_DIVE -> SetFlag(flag, FLAG_DIVE)
      [] opt = OPTION_WILDCARD -> SetFlag(flag, FLAG_WILDCARD)
      [] opt = OPTION_DOTTED -> SetFlag(flag, FLAG_DOTTED)
      [] OTHER -> flag

RECURSIVE OptionFlags(_, _, _)
\* for i := 0; i < len(opts); i++ (opts is 1-based here: i runs from 1).
OptionFlags(opts, i, flag) ==
    IF i > Len(opts) THEN flag
    ELSE OptionFlags(opts, i + 1, OptionFlag(flag, opts[i]))

\* The loop over opts starts after the key.
FirstOptionAfterKey == 1 + 1

\* The index the loop over opts starts at (Go's 0).
FirstOption == 1

\* A field without the tag is read as one with an empty tag.
tagsReaderNoTagKept(structField, tg) ==
    IF tg \notin DOMAIN structField.Tag
    THEN [fTag |-> "", flag |-> 0]
    ELSE LET opts == Split(structField.Tag[tg], ",")
         IN  [fTag |-> opts[1], flag |-> OptionFlags(opts, FirstOption, 0)]

tagsReader(structField, tg) ==
    IF tg \notin DOMAIN structField.Tag
    THEN [fTag |-> "", flag |-> SetFlag(0, FLAG_IGNORE)]
    ELSE LET opts == Split(structField.Tag[tg], ",")
         IN  [fTag |-> opts[1], flag |-> OptionFlags(opts, FirstOption, 0)]

(***************************************************************************)
(* The override hook.                                                      *)
(***************************************************************************)
NoError == ""

\* fmt.Errorf of callFunc.
ErrOutputs(m) == "wrong method " \o m \o ", should have 2 output: (string,interface{})"
ErrFirstOutput(m) == "wrong method " \o m \o ", first output should be string"

callFunc(reflectedValue, m) ==
    LET methodResults == reflectedValue.meth[m]
    IN  IF Len(methodResults) # method_results_total
        THEN [key |-> "", value |-> NilValue, err |-> ErrOutputs(m)]
        ELSE IF methodResults[1].kind # "string"
        THEN [key |-> "", value |-> NilValue, err |-> ErrFirstOutput(m)]
        ELSE [key |-> methodResults[1].s, value |-> Interface(methodResults[2]),
              err |-> NoError]

assignValueWithMethod(reflectedValue, m) ==
    IF m = "" THEN [key |-> "", value |-> NilValue, err |-> NoError]
    ELSE IF m \notin DOMAIN reflectedValue.meth
    THEN [key |-> "", value |-> NilValue, err |-> NoError]
    ELSE LET r == callFunc(reflectedValue, m)
         IN  IF r.err # NoError THEN [key |-> "", value |-> NilValue, err |-> r.err]
             ELSE r

(***************************************************************************)
(* The body of StructToMap.                                                *)
(***************************************************************************)
\* fmt.Errorf of StructToMap's check of its input.
ErrNilPointer(kind) == kind \o " is a nil pointer"
ErrNotStruct(kind) == "data is not a struct but " \o kind

\* reflect.ValueOf(data), the dereference of a pointer and the check that
\* what is left is a struct: the struct to walk, or the error.
reflectedValueOf(d) ==
    IF d.kind = "ptr" /\ d.nil
    THEN [err |-> ErrNilPointer(d.kind), rv |-> Invalid]
    ELSE LET reflectedValue == IF d.kind = "ptr" THEN d.elem ELSE d
         IN  IF reflectedValue.kind # "struct"
             THEN [err |-> ErrNotStruct(reflectedValue.kind), rv |-> Invalid]
             ELSE [err |-> NoError, rv |-> reflectedValue]

\* What one turn of the loop over the fields decides.
Outcome(act, key, value, err, arg, tagVal, flag, called) ==
    [act |-> act, key |-> key, value |-> value, err |-> err, arg |-> arg,
     tagVal |-> tagVal, flag |-> flag, called |-> called]

Skip == Outcome("skip", "", NilValue, NoError, Invalid, "", 0, FALSE)
SkipTagged(tagVal, flag) == Outcome("skip", "", NilValue, NoError, Invalid, tagVal, flag, FALSE)

\* The value a string field is written as.
stringValue(fieldValue, flag) ==
    IF HasFlag(flag, FLAG_WILDCARD)
    THEN StringValue("%" \o fieldValue.s \o "%")
    ELSE StringValue(fieldValue.s)

\* The value a slice, array, map or chan field is written as.
containerValue(fieldValue) == ReflectValue(fieldValue)

\* switch fieldValue.Kind(), for every kind but reflect.Struct: the entry
\* written at tagVal, or none when no case matches.
dispatch(fieldValue, tagVal, flag, called) ==
    LET write(v) == Outcome("write", tagVal, v, NoError, Invalid, tagVal, flag, called)
        k == fieldValue.kind
    IN  CASE k \in ContainerKinds -> write(containerValue(fieldValue))
          [] k \in IntKinds -> write(Int64(fieldValue.n))
          [] k \in UintKinds -> write(Uint64(fieldValue.n))
          [] k \in FloatKinds -> write(Float64(fieldValue.n))
          [] k = "string" -> write(stringValue(fieldValue, flag))
          [] k = "bool" -> write(BoolValue(fieldValue.b))
          [] k \in ComplexKinds -> write(Complex128(fieldValue.re, fieldValue.im))
          [] k = "interface" -> write(Interface(fieldValue))
          [] OTHER -> Outcome("drop", "", NilValue, NoError, Invalid, tagVal, flag, called)

\* Every field tagged omitempty is left out.
omittedWhateverItHolds(flag, fieldValue) == HasFlag(flag, FLAG_OMITEMPTY)

\* Whether the field is left out for being empty.
omitted(flag, fieldValue) == HasFlag(flag, FLAG_OMITEMPTY) /\ IsZero(fieldValue)

\* The override's key is taken even when empty.
keyTakenAlways(key) == TRUE

\* Whether the override's key is taken.
keyTaken(key) == key # ""

\* The pointer is not followed.
elemNotTaken(fieldValue) == fieldValue

\* fieldValue.Elem() for a pointer (not nil), the value itself otherwise.
elem(fieldValue) == IF fieldValue.kind = "ptr" THEN fieldValue.elem ELSE fieldValue

\* One turn of the loop over the fields of reflectedValue, for field i.
fieldStep(reflectedValue, i, tg, m) ==
    LET fieldType == reflectedValue.fields[i]
        tr == tagsReader(fieldType, tg)
        tagVal == tr.fTag
        flag == tr.flag
    IN  IF ~fieldType.exported THEN Skip
        ELSE IF HasFlag(flag, FLAG_IGNORE) THEN SkipTagged(tagVal, flag)
        ELSE IF omitted(flag, fieldType.value) THEN SkipTagged(tagVal, flag)
        ELSE IF fieldType.value.kind = "ptr" /\ fieldType.value.nil THEN SkipTagged(tagVal, flag)
        ELSE
          LET fieldValue == elem(fieldType.value)
              called == m # "" /\ m \in DOMAIN fieldValue.meth
              h == assignValueWithMethod(fieldValue, m)
          IN  IF h.err # NoError
              THEN Outcome("error", "", NilValue, h.err, Invalid, tagVal, flag, called)
              ELSE IF keyTaken(h.key)
              THEN Outcome("write", h.key, h.value, NoError, Invalid, tagVal, flag, called)
              ELSE IF fieldValue.kind = "struct"
              THEN Outcome("call", "", NilValue, NoError, fieldValue, tagVal, flag, called)
              ELSE dispatch(fieldValue, tagVal, flag, called)

\* Dotted is looked at before dive.
compositionDottedFirst(flag) ==
    IF HasFlag(flag, FLAG_DOTTED) THEN "dotted"
    ELSE IF HasFlag(flag, FLAG_DIVE) THEN "dive"
    ELSE "submap"

\* How the map of a nested struct is put into the parent's map.
composition(flag) ==
    IF HasFlag(flag, FLAG_DIVE) THEN "dive"
    ELSE IF HasFlag(flag, FLAG_DOTTED) THEN "dotted"
    ELSE "submap"

\* Dotted keys lose the nested key.
mergeKeyWithoutNestedKey(mode, tagVal, k) == IF mode = "dive" THEN k ELSE tagVal \o "."

\* The key a nested key k is merged under.
mergeKey(mode, tagVal, k) == IF mode = "dive" THEN k ELSE tagVal \o "." \o k

(***************************************************************************)
(* The call stack: one frame per running StructToMap, the innermost last.  *)
(* writes and calls are history: the map writes made so far, each with the *)
(* index of the field that made it, and the fields whose override method   *)
(* was called.                                                             *)
(***************************************************************************)
NewFrame(reflectedValue) ==
    [rv |-> reflectedValue, i |-> 1, result |-> EmptyMap, tagVal |-> "", flag |-> 0,
     deepRes |-> EmptyMap, left |-> {}, writes |-> <<>>, calls |-> {}]

NoReturn == [some |-> FALSE, nilmap |-> TRUE, m |-> EmptyMap, err |-> NoError]
ReturnMap(m) == [some |-> TRUE, nilmap |-> FALSE, m |-> m, err |-> NoError]
ReturnError(e) == [some |-> TRUE, nilmap |-> TRUE, m |-> EmptyMap, err |-> e]

Top == stack[Len(stack)]
Rest == SubSeq(stack, 1, Len(stack) - 1)
NumField(f) == Len(f.rv.fields)

\* result[key] = value, made by the field the frame is at.
Write(f, key, value) ==
    [f EXCEPT !.result = Put(f.result, key, value),
              !.writes = Append(f.writes, [i |-> f.i, key |-> key, value |-> value])]

NextField(f) == [f EXCEPT !.i = f.i + 1]

(***************************************************************************)
(* The inputs: the structs the calls are made on.                          *)
(***************************************************************************)
\* The most fields a struct passed to the first call has.
MaxFields == 2

\* Method sets with a method "M": a good one, one whose key is a tag key, one
\* that returns the empty key, and three of the wrong shape.
MethodHK == [M |-> <<Str("h"), Num("int", 42)>>]
MethodA == [M |-> <<Str("a"), Iface(Str("v"))>>]
MethodEmptyKey == [M |-> <<Str(""), Num("int", 42)>>]
MethodThreeOutputs == [M |-> <<Str("h"), Num("int", 42), Bool(TRUE)>>]
MethodOneOutput == [M |-> <<Str("h")>>]
MethodFirstNotString == [M |-> <<Num("int", 1), Num("int", 42)>>]

\* Structs met as fields (none holds a struct).
StructC == Struct(<<Fld(TRUE, Json("c"), Str("y"))>>)
StructAB == Struct(<<Fld(TRUE, Json("a"), Num("int", 1)), Fld(TRUE, Json("b,wildcard"), Str("y"))>>)
StructA == Struct(<<Fld(TRUE, Json("a"), Str("z"))>>)
StructZero == Struct(<<Fld(TRUE, Json("a"), Str("")), Fld(FALSE, Json("b"), Num("int", 0))>>)
StructNoKeys ==
    Struct(<<Fld(FALSE, Json("a"), Str("u")), Fld(TRUE, NoTag, Str("n")),
             Fld(TRUE, Json("-,dive"), StructC),
             Fld(TRUE, Json("a,-"), WithMethods(Str("x"), MethodThreeOutputs))>>)
StructAA == Struct(<<Fld(TRUE, Json("a"), Num("int", 1)), Fld(TRUE, Json("a"), Num("int", 2))>>)
StructBadMethod ==
    Struct(<<Fld(TRUE, Json("a"), Num("int", 1)),
             Fld(TRUE, Json("b"), WithMethods(Str("x"), MethodThreeOutputs))>>)
StructPtr == Struct(<<Fld(TRUE, Json("a,omitempty"), Ptr(Num("int", 0))),
                      Fld(TRUE, Json("b"), NilPtr)>>)

\* Structs that hold a struct.
StructDotted == Struct(<<Fld(TRUE, Json("b,dotted"), StructC)>>)
StructDive == Struct(<<Fld(TRUE, Json("b,dive"), StructAB), Fld(TRUE, Json("a"), Str("w"))>>)
StructDeepBad == Struct(<<Fld(TRUE, Json("b"), Ptr(StructBadMethod))>>)
StructDeepMethod ==
    Struct(<<Fld(TRUE, Json("b,dive"), WithMethods(StructC, MethodHK)),
             Fld(TRUE, Json("a,omitempty"), WithMethods(Str(""), MethodOneOutput))>>)

\* Values of every kind, as fields tagged "a".
KindValues ==
    {Num("int8", -1), Num("int64", 7), Num("uint16", 9), Num("uintptr", 5),
     Num("float32", 2), Cplx("complex64", 1, 2), Bool(TRUE), Str("x"),
     Ref("slice", FALSE, <<Str("e")>>), Array(<<Num("int", 0), Num("int", 1)>>), Ref("map", TRUE, <<>>),
     Ref("chan", FALSE, <<>>), Ref("func", FALSE, <<>>), NilIface, Iface(Str("x")),
     Iface(StructC)}

\* The fields of the structs passed to the first call.
Fields ==
    {Fld(TRUE, Json("a"), v) : v \in KindValues}
    \cup {Fld(TRUE, Json("a,omitempty"), v) :
            v \in {Num("int64", 0), Num("int64", 7), Str(""), Bool(FALSE),
                   Ref("slice", TRUE, <<>>), Ref("func", FALSE, <<>>), Array(<<Num("int", 0), Num("int", 0)>>),
                   NilIface, NilPtr, Ptr(Num("int64", 0)), Ptr(Str("")),
                   WithMethods(Str(""), MethodThreeOutputs)}}
    \cup {Fld(TRUE, Json(t), Str("x")) :
            t \in {"b,wildcard", "a,wildcard,dive,dotted", "", "omitempty", "b,Dive,x"}}
    \cup {Fld(TRUE, Json("a,wildcard,dive,dotted"), Num("int64", 7))}
    \cup {Fld(TRUE, tg, v) :
            tg \in {NoTag, Json("-"), Json("a,-"), Json("-,dive"), [map |-> "a"],
                    Json("a,omitempty,dotted,wildcard,-")},
            v \in {Str("x"), StructC, WithMethods(Str("x"), MethodHK),
                   WithMethods(StructC, MethodThreeOutputs)}}
    \cup {Fld(FALSE, Json(t), v) :
            t \in {"a", "a,dive"}, v \in {Str("x"), StructC, WithMethods(Str("x"), MethodHK)}}
    \cup {Fld(TRUE, Json(t), v) :
            t \in {"a", "a,dive", "a,dotted", "b,dive,dotted", "a,omitempty,dive"},
            v \in {StructC, StructAB, StructA, StructNoKeys, StructDotted}}
    \cup {Fld(TRUE, Json(t), v) :
            t \in {"a", "b,dotted"},
            v \in {StructZero, StructAA, StructBadMethod, StructPtr, StructDive,
                   StructDeepBad, StructDeepMethod, Ptr(StructAB)}}
    \cup {Fld(TRUE, Json(t), WithMethods(v, ms)) :
            t \in {"a", "b,dive"},
            v \in {Str("x"), StructAB},
            ms \in {MethodHK, MethodA, MethodEmptyKey, MethodThreeOutputs,
                    MethodOneOutput, MethodFirstNotString}}
    \cup {Fld(TRUE, Json("a"), v) :
            v \in {NilPtr, Ptr(Num("int8", -1)), Ptr(Str("x")), Ptr(Ptr(Str("x"))),
                   Ptr(Ptr(StructC)), Ptr(WithMethods(Str("x"), MethodHK)),
                   Ptr(WithMethods(Str("x"), MethodOneOutput)), Ptr(NilIface)}}
    \cup {Fld(TRUE, Json("a,wildcard,dive"), Ptr(Str("x")))}

\* Plain fields, met beside the others: one writes a key, one merges a nested
\* map of two keys.
PlainFields ==
    {Fld(TRUE, Json("h"), Num("int", 1)),
     Fld(TRUE, Json("b,dive"), StructAB)}

RECURSIVE SeqsOf(_, _)
\* The sequences of n members of S.
SeqsOf(S, n) ==
    IF n = 0 THEN {<<>>}
    ELSE {Append(q, x) : q \in SeqsOf(S, n - 1), x \in S}

\* q with x put in at place j.
InsertAt(q, j, x) == SubSeq(q, 1, j - 1) \o <<x>> \o SubSeq(q, j, Len(q))

\* The field lists of at most MaxFields fields, at most one of which is not
\* a plain one.
FieldLists ==
    UNION {SeqsOf(PlainFields, n) : n \in 0..MaxFields}
    \cup UNION {{InsertAt(q, j, x) : q \in SeqsOf(PlainFields, n), j \in 1..(n + 1), x \in Fields} :
                  n \in 0..(MaxFields - 1)}

Records == {Struct(fs) : fs \in FieldLists}

\* What StructToMap is called on: a struct, a pointer to one, or a value it
\* refuses.
Datas ==
    Records
    \cup {Ptr(StructDive), Ptr(StructDeepBad), NilPtr, Ptr(Ptr(StructC)), Ptr(Str("x")),
          Num("int", 3), Invalid, Ref("map", FALSE, <<>>)}

Tags == {"json", "map"}
Methods == {"", "M"}

(***************************************************************************)
(* The calls.                                                              *)
(***************************************************************************)
Init ==
    /\ data \in Datas
    /\ tag \in Tags
    /\ method \in Methods
    /\ pc = "idle"
    /\ stack = <<>>
    /\ retv = NoReturn
    /\ ret = NoReturn
    /\ raised = NoError
    /\ run = 1
    /\ prev = [data |-> Invalid, ret |-> NoReturn]

\* StructToMap(data, tag, method) is called: lines 67 to 80.
Call ==
    /\ pc = "idle"
    /\ LET e == reflectedValueOf(data)
       IN  IF e.err # NoError
           THEN /\ retv' = ReturnError(e.err)
                /\ raised' = e.err
                /\ stack' = stack
           ELSE /\ stack' = <<NewFrame(e.rv)>>
                /\ UNCHANGED <<retv, raised>>
    /\ pc' = "running"
    /\ UNCHANGED <<data, tag, method, ret, run, prev>>

\* The innermost call is at a field, with nothing to merge.
AtField ==
    /\ pc = "running"
    /\ stack # <<>>
    /\ ~retv.some
    /\ Top.left = {}
    /\ Top.i <= NumField(Top)

CurrentOutcome == fieldStep(Top.rv, Top.i, tag, method)

Noted(f, o) ==
    [f EXCEPT !.tagVal = o.tagVal, !.flag = o.flag,
              !.calls = IF o.called THEN f.calls \cup {f.i} ELSE f.calls]

\* A field that writes nothing: lines 85 to 101, or no case of the switch.
SkipField ==
    /\ AtField
    /\ CurrentOutcome.act \in {"skip", "drop"}
    /\ stack' = Append(Rest, NextField(Noted(Top, CurrentOutcome)))
    /\ UNCHANGED <<data, tag, method, pc, retv, ret, raised, run, prev>>

\* A field that writes one entry: the override's (line 110) or the switch's.
WriteField ==
    /\ AtField
    /\ CurrentOutcome.act = "write"
    /\ LET o == CurrentOutcome
       IN  stack' = Append(Rest, NextField(Write(Noted(Top, o), o.key, o.value)))
    /\ UNCHANGED <<data, tag, method, pc, retv, ret, raised, run, prev>>

\* The override method fails: return nil, err (line 107).
FailField ==
    /\ AtField
    /\ CurrentOutcome.act = "error"
    /\ stack' = Rest
    /\ retv' = ReturnError(CurrentOutcome.err)
    /\ raised' = CurrentOutcome.err
    /\ UNCHANGED <<data, tag, method, pc, ret, run, prev>>

\* A struct field: StructToMap(fieldValue.Interface(), tag, method) (line 118).
CallField ==
    /\ AtField
    /\ CurrentOutcome.act = "call"
    /\ LET o == CurrentOutcome
           e == reflectedValueOf(o.arg)
       IN  IF e.err # NoError
           THEN /\ stack' = Append(Rest, Noted(Top, o))
                /\ retv' = ReturnError(e.err)
                /\ raised' = e.err
           ELSE /\ stack' = Append(Append(Rest, Noted(Top, o)), NewFrame(e.rv))
                /\ UNCHANGED <<retv, raised>>
    /\ UNCHANGED <<data, tag, method, pc, ret, run, prev>>

\* The loop is over: return result, nil (line 154).
Return ==
    /\ pc = "running"
    /\ stack # <<>>
    /\ ~retv.some
    /\ Top.left = {}
    /\ Top.i > NumField(Top)
    /\ stack' = Rest
    /\ retv' = ReturnMap(Top.result)
    /\ UNCHANGED <<data, tag, method, pc, ret, raised, run, prev>>

\* The caller wraps the nested error.
passedOnWrapped(deepErr) == "nested: " \o deepErr

\* What the caller passes on of a nested error.
passedOn(deepErr) == deepErr

\* The nested call has returned deepRes, deepErr: lines 119 to 132.
AfterCall ==
    /\ pc = "running"
    /\ stack # <<>>
    /\ retv.some
    /\ IF retv.err # NoError
       THEN /\ stack' = Rest
            /\ retv' = ReturnError(passedOn(retv.err))
       ELSE /\ retv' = NoReturn
            /\ LET f == [Top EXCEPT !.deepRes = retv.m]
               IN  IF composition(f.flag) = "submap"
                   THEN stack' = Append(Rest, NextField(Write(f, f.tagVal, MapValue(retv.m))))
                   ELSE IF DOMAIN retv.m = {}
                   THEN stack' = Append(Rest, NextField(f))
                   ELSE stack' = Append(Rest, [f EXCEPT !.left = DOMAIN retv.m])
    /\ UNCHANGED <<data, tag, method, pc, ret, raised, run, prev>>

\* One turn of for k, v := range deepRes (lines 123 and 127): Go ranges over a
\* map in no fixed order.
Merge ==
    /\ pc = "running"
    /\ stack # <<>>
    /\ Top.left # {}
    /\ \E k \in Top.left :
         LET f == Write(Top, mergeKey(composition(Top.flag), Top.tagVal, k), Top.deepRes[k])
             g == [f EXCEPT !.left = Top.left \ {k}]
         IN  stack' = Append(Rest, IF g.left = {} THEN NextField(g) ELSE g)
    /\ UNCHANGED <<data, tag, method, pc, retv, ret, raised, run, prev>>

\* The first call returns to its caller.
Deliver ==
    /\ pc = "running"
    /\ stack = <<>>
    /\ retv.some
    /\ ret' = retv
    /\ retv' = NoReturn
    /\ pc' = "done"
    /\ UNCHANGED <<data, tag, method, stack, raised, run, prev>>

\* The caller calls again, on the same data.
Again ==
    /\ pc = "done"
    /\ run = 1
    /\ prev' = [data |-> data, ret |-> ret]
    /\ run' = 2
    /\ pc' = "idle"
    /\ ret' = NoReturn
    /\ raised' = NoError
    /\ UNCHANGED <<data, tag, method, stack, retv>>

Next ==
    \/ Call
    \/ SkipField
    \/ WriteField
    \/ FailField
    \/ CallField
    \/ Return
    \/ AfterCall
    \/ Merge
    \/ Deliver
    \/ Again

Spec == Init /\ [][Next]_vars

(***************************************************************************)
(* tagsReader alone, on tags made of every list of a few tokens.           *)
(***************************************************************************)
\* The most tokens a tag has.
MaxTokens == 3

Tokens == {"a", "", "-", "omitempty", "dive", "wildcard", "dotted", "Dive", "omit"}

RECURSIVE Join(_, _)
\* strings.Join(toks, sep)
Join(toks, sep) ==
    IF Len(toks) = 0 THEN ""
    ELSE IF Len(toks) = 1 THEN toks[1]
    ELSE toks[1] \o sep \o Join(Tail(toks), sep)

TagStrings == {Join(toks, ",") : toks \in UNION {SeqsOf(Tokens, n) : n \in 1..MaxTokens}}

TagFields == {Fld(TRUE, Json(t), Str("x")) : t \in TagStrings} \cup {Fld(TRUE, NoTag, Str("x"))}

InitTags ==
    /\ data \in {Struct(<<fld>>) : fld \in TagFields}
    /\ tag \in Tags
    /\ method = ""
    /\ pc = "idle"
    /\ stack = <<>>
    /\ retv = NoReturn
    /\ ret = NoReturn
    /\ raised = NoError
    /\ run = 1
    /\ prev = [data |-> Invalid, ret |-> NoReturn]

\* tagVal, flag := tagsReader(fieldType, tag) (line 89), for the first field.
ReadTag ==
    /\ pc = "idle"
    /\ LET tr == tagsReader(data.fields[1], tag)
       IN  stack' = <<[NewFrame(data) EXCEPT !.tagVal = tr.fTag, !.flag = tr.flag]>>
    /\ pc' = "read"
    /\ UNCHANGED <<data, tag, method, retv, ret, raised, run, prev>>

SpecTags == InitTags /\ [][ReadTag]_vars

(***************************************************************************)
(* What the properties below speak of.                                     *)
(***************************************************************************)
AllFlags == {FLAG_IGNORE, FLAG_OMITEMPTY, FLAG_DIVE, FLAG_WILDCARD, FLAG_DOTTED}
FlagSet(flag) == {f \in AllFlags : HasFlag(flag, f)}

ReservedWords == {"-", "omitempty", "dive", "wildcard", "dotted"}
FlagOfWord(w) ==
    CASE w = "-" -> FLAG_IGNORE
      [] w = "omitempty" -> FLAG_OMITEMPTY
      [] w = "dive" -> FLAG_DIVE
      [] w = "wildcard" -> FLAG_WILDCARD
      [] w = "dotted" -> FLAG_DOTTED

\* Whether the field has a tag under the namespace of the call.
Tagged(fld) == tag \in DOMAIN fld.Tag
\* The comma-separated tokens of the field's tag.
TokensOf(fld) == Split(fld.Tag[tag], ",")
\* The flags whose word is among the tokens from place n on.
FlagsFrom(toks, n) == {FlagOfWord(toks[j]) : j \in {x \in n..Len(toks) : toks[x] \in ReservedWords}}
HasOption(fld, w) ==
    Tagged(fld) /\ LET toks == TokensOf(fld) IN \E j \in 1..Len(toks) : toks[j] = w
Ignored(fld) == ~fld.exported \/ ~Tagged(fld) \/ HasOption(fld, "-")

\* The tokens are the tag's: joined by commas they give it back, and none
\* holds a comma.
TokensRight(fld) ==
    LET toks == TokensOf(fld)
    IN  /\ Join(toks, ",") = fld.Tag[tag]
        /\ \A j \in 1..Len(toks) : Len(Split(toks[j], ",")) = 1

\* What tagsReader returned for the one field of data.
Read == stack[1]

\* C9, as the claim has it: tagsReader returns ("", Ignore) for a field with no
\* tag under the namespace, and otherwise the first token as the key and
\* exactly the flags whose reserved word is among the tokens after the first.
C9_FlagsFromLaterTokensOnly ==
    pc = "read" =>
        IF ~Tagged(data.fields[1])
        THEN Read.tagVal = "" /\ FlagSet(Read.flag) = {FLAG_IGNORE}
        ELSE /\ TokensRight(data.fields[1])
             /\ Read.tagVal = TokensOf(data.fields[1])[1]
             /\ FlagSet(Read.flag) = FlagsFrom(TokensOf(data.fields[1]), 2)

\* C9, amended: tagsReader returns ("", Ignore) for a field with no tag under
\* the namespace, and otherwise the first token as the key and exactly the
\* flags whose reserved word is among all the tokens, the first included.
C9_FlagsFromAllTokens ==
    pc = "read" =>
        IF ~Tagged(data.fields[1])
        THEN Read.tagVal = "" /\ FlagSet(Read.flag) = {FLAG_IGNORE}
        ELSE /\ TokensRight(data.fields[1])
             /\ Read.tagVal = TokensOf(data.fields[1])[1]
             /\ FlagSet(Read.flag) = FlagsFrom(TokensOf(data.fields[1]), 1)

\* A tag whose first token is a reserved word and whose later tokens hold
\* another and a word that is none has been read.
C9_Witness ==
    /\ pc = "read"
    /\ tag = "json"
    /\ Tagged(data.fields[1])
    /\ data.fields[1].Tag[tag] = "omitempty,dotted,Dive"
    /\ Read.tagVal = "omitempty"
    /\ FlagSet(Read.flag) = {FLAG_OMITEMPTY, FLAG_DOTTED}

(***************************************************************************)
(* The fields of the running calls.                                        *)
(***************************************************************************)
Depths == 1..Len(stack)
FieldOf(f, j) == f.rv.fields[j]
\* The writes field j of the frame has made, in order.
WritesOf(f, j) == SelectSeq(f.writes, LAMBDA w : w.i = j)
KeysOf(ws) == {ws[n].key : n \in 1..Len(ws)}
Entries(ws) == {[key |-> ws[n].key, value |-> ws[n].value] : n \in 1..Len(ws)}

\* The innermost call has just finished a field: Last, whose index is LastI.
JustDone ==
    /\ pc = "running"
    /\ stack # <<>>
    /\ ~retv.some
    /\ Top.left = {}
    /\ Top.i > 1
LastI == Top.i - 1
Last == FieldOf(Top, LastI)
LastWrites == WritesOf(Top, LastI)

\* A field that is neither ignored, nor left out as empty, nor a nil pointer.
IsNilPtr(v) == v.kind = "ptr" /\ v.nil
Omitted(fld) == HasOption(fld, "omitempty") /\ IsZero(fld.value)
Converted(fld) == ~Ignored(fld) /\ ~Omitted(fld) /\ ~IsNilPtr(fld.value)
\* The value the conversion works on: the pointee of a pointer.
Target(fld) == IF fld.value.kind = "ptr" THEN fld.value.elem ELSE fld.value

\* The innermost call is at field Top.i: Current.
Current == FieldOf(Top, Top.i)
AtConverted == AtField /\ Converted(Current)

\* The override method of the call, on the value's type.
Exposes(v) == method # "" /\ method \in DOMAIN v.meth
WellFormed(outs) == Len(outs) = 2 /\ outs[1].kind = "string"
\* The override applies: the method is there and returns a key that is not empty.
Overrides(v) ==
    /\ Exposes(v)
    /\ WellFormed(v.meth[method])
    /\ v.meth[method][1].s # ""
\* The override method is there and of the wrong shape.
Malformed(v) == Exposes(v) /\ ~WellFormed(v.meth[method])

\* The kinds the switch has a case for, but for structs.
WrittenKinds ==
    ContainerKinds \cup IntKinds \cup UintKinds \cup FloatKinds \cup ComplexKinds
        \cup {"string", "bool", "interface"}

\* The record with field j holding v.
WithValue(rv, j, v) == [rv EXCEPT !.fields[j].value = v]
\* Two turns of the loop decide the same (whether the method was called aside).
SameDecision(o1, o2) == [o1 EXCEPT !.called = FALSE] = [o2 EXCEPT !.called = FALSE]
\* The writes a decision for field j makes, when it calls no nested conversion.
WritesFor(o, j) ==
    IF o.act = "write" THEN <<[i |-> j, key |-> o.key, value |-> o.value]>> ELSE <<>>

\* C1: a field tagged "-", a field with no tag under the namespace and an
\* unexported field never write a key, at any depth, whatever else the tag
\* holds and whatever the value: none of the writes of a running call is such
\* a field's, its override method is not called, no nested conversion is
\* started for it, and the loop does nothing but go on to the next field.
C1_IgnoredFieldsWriteNothing ==
    /\ \A d \in Depths :
           LET f == stack[d]
           IN  /\ \A n \in 1..Len(f.writes) : ~Ignored(FieldOf(f, f.writes[n].i))
               /\ \A j \in f.calls : ~Ignored(FieldOf(f, j))
               /\ d < Len(stack) => ~Ignored(FieldOf(f, f.i))
    /\ (AtField /\ Ignored(Current)) =>
           (CurrentOutcome.act = "skip" /\ ~CurrentOutcome.called)

\* A nested call, with the override method named, has gone through a struct
\* whose fields are all ignored (unexported, untagged, "-,dive" on a struct),
\* and has written nothing.
C1_Witness ==
    /\ Len(stack) = 2
    /\ method = "M"
    /\ tag = "json"
    /\ Top.rv = StructNoKeys
    /\ Top.i > NumField(Top)
    /\ \A j \in 1..NumField(Top) : Ignored(FieldOf(Top, j))
    /\ \E j \in 1..NumField(Top) : HasOption(FieldOf(Top, j), "dive")
    /\ Top.writes = <<>>

\* C3, as the claim has it: a field tagged omitempty (and not ignored) writes no
\* key and its override method is not called when its value is the zero value
\* of its type, and is present in the result when its value is not.
C3_NonZeroAlwaysPresent ==
    (JustDone /\ ~Ignored(Last) /\ HasOption(Last, "omitempty")) =>
        IF IsZero(Last.value)
        THEN LastWrites = <<>> /\ LastI \notin Top.calls
        ELSE KeysOf(LastWrites) # {} /\ KeysOf(LastWrites) \subseteq DOMAIN Top.result

\* The field's value is one the conversion writes nothing for: of a kind the
\* switch has no case for (func, uintptr, unsafe.Pointer, a pointer to a
\* pointer), or a struct merged by dive or dotted whose nested map is empty.
WritesNoKey(f, fld) ==
    \/ Target(fld).kind \notin WrittenKinds \cup {"struct"}
    \/ /\ Target(fld).kind = "struct"
       /\ HasOption(fld, "dive") \/ HasOption(fld, "dotted")
       /\ f.deepRes = EmptyMap

\* C3, amended: a field tagged omitempty (and not ignored) writes no key and
\* its override method is not called when its value is the zero value of its
\* type; when its value is not, it is present in the result unless its value
\* (the pointee of a pointer) is of a kind the conversion drops or is a struct
\* merged by dive or dotted whose nested map is empty.
C3_OmitEmpty ==
    /\ (JustDone /\ ~Ignored(Last) /\ HasOption(Last, "omitempty")) =>
           IF IsZero(Last.value)
           THEN LastWrites = <<>> /\ LastI \notin Top.calls
           ELSE WritesNoKey(Top, Last)
                \/ (KeysOf(LastWrites) # {} /\ KeysOf(LastWrites) \subseteq DOMAIN Top.result)
    /\ (AtField /\ ~Ignored(Current) /\ HasOption(Current, "omitempty") /\ IsZero(Current.value)) =>
           (CurrentOutcome.act = "skip" /\ ~CurrentOutcome.called)

\* A field tagged omitempty that holds the zero value of a type with the
\* override method has been passed, with the method named: nothing is written
\* and the method has not been called.
C3_Witness ==
    /\ JustDone
    /\ method = "M"
    /\ ~Ignored(Last)
    /\ HasOption(Last, "omitempty")
    /\ IsZero(Last.value)
    /\ Exposes(Last.value)
    /\ LastWrites = <<>>
    /\ Top.calls = {}

\* C6, as the claim has it: a pointer field that is not ignored writes nothing
\* and has no override method called when the pointer is nil, with or without
\* omitempty; when it is not nil the field is converted exactly as a field
\* holding the pointed-to value would be.
C6_PointerAsPointee ==
    /\ (JustDone /\ ~Ignored(Last) /\ IsNilPtr(Last.value)) =>
           (LastWrites = <<>> /\ LastI \notin Top.calls)
    /\ (AtField /\ ~Ignored(Current) /\ Current.value.kind = "ptr" /\ ~Current.value.nil) =>
           SameDecision(CurrentOutcome,
                        fieldStep(WithValue(Top.rv, Top.i, Current.value.elem), Top.i, tag, method))

\* C6, amended: a pointer field that is not ignored writes nothing and has no
\* override method called when the pointer is nil, with or without omitempty;
\* when it is not nil, it is never left out as empty (omitempty looks at the
\* pointer, not at the pointee), and when the pointee is not itself a pointer
\* and is not the zero value under omitempty, the field is converted exactly as
\* a field holding the pointee would be, and writes what that field would write.
C6_Pointer ==
    /\ (JustDone /\ ~Ignored(Last) /\ IsNilPtr(Last.value)) =>
           (LastWrites = <<>> /\ LastI \notin Top.calls)
    /\ (AtField /\ ~Ignored(Current) /\ IsNilPtr(Current.value)) =>
           (CurrentOutcome.act = "skip" /\ ~CurrentOutcome.called)
    /\ (AtField /\ ~Ignored(Current) /\ Current.value.kind = "ptr" /\ ~Current.value.nil) =>
           /\ CurrentOutcome.act # "skip"
           /\ (Current.value.elem.kind # "ptr" /\ ~Omitted(WithValue(Top.rv, Top.i, Current.value.elem).fields[Top.i])) =>
                  SameDecision(CurrentOutcome,
                               fieldStep(WithValue(Top.rv, Top.i, Current.value.elem), Top.i, tag, method))
    /\ (JustDone /\ Converted(Last) /\ Last.value.kind = "ptr"
          /\ Last.value.elem.kind \notin {"ptr", "struct"}
          /\ ~Omitted(WithValue(Top.rv, LastI, Last.value.elem).fields[LastI])) =>
           LastWrites = WritesFor(fieldStep(WithValue(Top.rv, LastI, Last.value.elem), LastI, tag, method), LastI)

\* A field tagged omitempty that points to a zero value has been written.
C6_Witness ==
    /\ JustDone
    /\ ~Ignored(Last)
    /\ HasOption(Last, "omitempty")
    /\ Last.value.kind = "ptr"
    /\ ~Last.value.nil
    /\ IsZero(Last.value.elem)
    /\ LastWrites = <<[i |-> LastI, key |-> "a", value |-> Int64(0)]>>

\* C4: for a converted field and the override method named by the call: when
\* the type of the value (the pointee of a pointer) has the method and it
\* returns a key that is not empty, the field writes that key with the value
\* returned and nothing else, and no nested conversion is started; when no
\* method is named, the type has none of that name or the key returned is
\* empty, the field is converted as in a call that names no method.
C4_OverrideHook ==
    /\ (JustDone /\ Converted(Last) /\ Overrides(Target(Last))) =>
           LastWrites = <<[i |-> LastI, key |-> Target(Last).meth[method][1].s,
                           value |-> Interface(Target(Last).meth[method][2])]>>
    /\ \A d \in Depths :
           d < Len(stack) => ~Overrides(Target(FieldOf(stack[d], stack[d].i)))
    /\ (AtConverted /\ ~Overrides(Target(Current)) /\ ~Malformed(Target(Current))) =>
           SameDecision(CurrentOutcome, fieldStep(Top.rv, Top.i, tag, ""))
    /\ (JustDone /\ Converted(Last) /\ ~Overrides(Target(Last)) /\ Target(Last).kind # "struct") =>
           LastWrites = WritesFor(fieldStep(Top.rv, LastI, tag, ""), LastI)

\* A struct field tagged dive whose type has the method has been passed: the
\* method's key and value are all that is written.
C4_Witness ==
    /\ JustDone
    /\ method = "M"
    /\ Converted(Last)
    /\ Target(Last).kind = "struct"
    /\ HasOption(Last, "dive")
    /\ Overrides(Target(Last))
    /\ Len(stack) = 1
    /\ LastWrites = <<[i |-> LastI, key |-> "h", value |-> Dyn(Num("int", 42))]>>

\* What the first call is bound to refuse.
InputError ==
    LET pointed == IF data.kind = "ptr" THEN data.elem ELSE data
    IN  IF IsNilPtr(data) THEN "ptr is a nil pointer"
        ELSE IF pointed.kind # "struct" THEN "data is not a struct but " \o pointed.kind
        ELSE NoError

\* C5: every error aborts the whole call: a nil pointer passed, a value that
\* is not a struct once dereferenced, an override method of the wrong shape on
\* a converted field at any depth. From the moment an error is raised, each
\* call returns that very error with a nil map, up to the first, whatever was
\* written before; a field with such a method is never passed.
C5_ErrorsAbort ==
    /\ raised # NoError =>
           /\ \/ pc = "running" /\ retv = ReturnError(raised)
              \/ pc = "done" /\ ret = ReturnError(raised)
           /\ raised \in {InputError,
                           "wrong method " \o method \o ", should have 2 output: (string,interface{})",
                           "wrong method " \o method \o ", first output should be string"}
    /\ (AtConverted /\ Malformed(Target(Current))) => CurrentOutcome.act = "error"
    /\ pc = "done" =>
           /\ ret.some
           /\ ret.err # NoError <=> ret.nilmap
           /\ ret.nilmap => ret.m = EmptyMap
           /\ InputError # NoError => ret.err = InputError
           /\ ret.err = raised
    /\ \A d \in Depths :
           LET f == stack[d]
           IN  /\ \A j \in 1..(f.i - 1) :
                    ~(Converted(FieldOf(f, j)) /\ Malformed(Target(FieldOf(f, j))))
               /\ d < Len(stack) =>
                    ~(Converted(FieldOf(f, f.i)) /\ Malformed(Target(FieldOf(f, f.i))))

\* The error of a method two structs down has come back from the first call,
\* after an earlier field had been written.
C5_Witness ==
    /\ pc = "done"
    /\ method = "M"
    /\ tag = "json"
    /\ data = Struct(<<Fld(TRUE, Json("h"), Num("int", 1)), Fld(TRUE, Json("a"), StructDeepBad)>>)
    /\ ret = ReturnError("wrong method M, should have 2 output: (string,interface{})")

\* C7: with no override method named, a second call on the same struct
\* returns the same map (or the same error) as the first, in whatever order
\* the nested maps are ranged over, and the struct is as it was.
C7_RepeatedCallsAgree ==
    (run = 2 /\ pc = "done" /\ method = "") => (data = prev.data /\ ret = prev.ret)

\* Two calls have returned a map in which two nested maps of two keys each
\* were merged.
C7_Witness ==
    /\ run = 2
    /\ pc = "done"
    /\ method = ""
    /\ tag = "json"
    /\ data = Struct(<<Fld(TRUE, Json("b,dive"), StructAB), Fld(TRUE, Json("b,dotted"), StructDive)>>)
    /\ DOMAIN ret.m = {"a", "b", "b.a", "b.b"}
    /\ ret = prev.ret

\* The map the writes ws leave when each write replaces what its key held.
LastWins(ws) ==
    [k \in KeysOf(ws) |->
        ws[CHOOSE n \in 1..Len(ws) :
              ws[n].key = k /\ \A x \in (n + 1)..Len(ws) : ws[x].key # k].value]

\* C8: in every running call the fields write in the order they are declared
\* in, the map holds for each key the value of the last write to it, and the
\* writes one field makes (a merge by dive or dotted) are to keys that differ.
C8_LastWriteWins ==
    \A d \in Depths :
        LET ws == stack[d].writes
        IN  /\ stack[d].result = LastWins(ws)
            /\ \A x, y \in 1..Len(ws) :
                   x < y => /\ ws[x].i <= ws[y].i
                            /\ ws[x].i = ws[y].i => ws[x].key # ws[y].key
            /\ \A x \in 1..Len(ws) : ws[x].i <= stack[d].i

\* A later field's key has replaced a merged one.
C8_Witness ==
    /\ pc = "done"
    /\ tag = "json"
    /\ method = ""
    /\ data = Struct(<<Fld(TRUE, Json("b,dive"), StructAB), Fld(TRUE, Json("a"), Str("x"))>>)
    /\ ret.m = [a |-> StringValue("x"), b |-> StringValue("%y%")]

\* The last field is a struct (or points to one) the nested conversion was
\* called on, which returned Top.deepRes.
NestedDone == JustDone /\ Converted(Last) /\ Target(Last).kind = "struct" /\ ~Overrides(Target(Last))
KeyOf(fld) == TokensOf(fld)[1]

\* What a field merging the nested map D has written: one write for each key
\* of D, under the key named(k), of D's value at k, and nothing else.
MergedAs(D, named(_)) ==
    /\ Entries(LastWrites) = {[key |-> named(k), value |-> D[k]] : k \in DOMAIN D}
    /\ Len(LastWrites) = Cardinality(DOMAIN D)
    /\ \A k \in DOMAIN D : named(k) \in DOMAIN Top.result /\ Top.result[named(k)] = D[k]

DiveKey(k) == k
DottedKey(k) == KeyOf(Last) \o "." \o k

ClaimedValue(fld) ==
    LET v == Target(fld)
    IN  CASE v.kind \in ContainerKinds -> <<Dyn(v)>>
          [] v.kind \in IntKinds -> <<Int64(v.n)>>
          [] v.kind \in UintKinds -> <<Uint64(v.n)>>
          [] v.kind \in FloatKinds -> <<Float64(v.n)>>
          [] v.kind \in ComplexKinds -> <<Complex128(v.re, v.im)>>
          [] v.kind = "bool" -> <<BoolValue(v.b)>>
          [] v.kind = "string" ->
                IF HasOption(fld, "wildcard") THEN <<StringValue("%" \o v.s \o "%")>>
                ELSE <<StringValue(v.s)>>
          [] v.kind = "interface" -> IF v.nil THEN <<NilValue>> ELSE <<Dyn(v.elem)>>
          [] OTHER -> <<>>

\* C10: a converted field with key p whose value is not a struct and to which
\* the override does not apply writes at p, and only there, what its kind
\* says: a slice, array, map or chan the field's own value; a signed integer
\* an int64, an unsigned one a uint64, a float a float64, a complex number a
\* complex128, of the same value; a bool itself; a string itself, or between
\* two "%" when tagged wildcard; an interface what it holds; any other kind
\* nothing. Dive, dotted and wildcard change nothing else.
C10_ValueDispatch ==
    (JustDone /\ Converted(Last) /\ Target(Last).kind # "struct" /\ ~Overrides(Target(Last))) =>
        LastWrites = [n \in 1..Len(ClaimedValue(Last)) |->
                         [i |-> LastI, key |-> KeyOf(Last), value |-> ClaimedValue(Last)[n]]]
====
